---- MODULE Spec2Model ----
(***************************************************************************)
(* A model of time-for-food's meal planning core: food::Food with its      *)
(* rational preparation time (src/src/food/mod.rs) and food::engine::Block *)
(* with split_at_start (src/src/food/engine.rs).                           *)
(*                                                                         *)
(* A NaiveTime is modelled as the whole number of seconds since midnight,  *)
(* 0 .. SecsPerDay-1.  Every Duration the program adds to a time is a      *)
(* whole number of seconds (Duration::seconds), so it never touches the    *)
(* sub-second part of a time.  An Option<T> is a sequence of length 0      *)
(* (None) or 1 (Some).  A Rational32 is a record of its numerator and      *)
(* denominator, kept reduced with a positive denominator as Ratio::new     *)
(* keeps it.                                                               *)
(***************************************************************************)
EXTENDS Integers, Sequences

VARIABLES blocks, food, out, call

vars == <<blocks, food, out, call>>

(***************************************************************************)
(* Bounds of the model.                                                    *)
(***************************************************************************)
\* most blocks that are ever alive at once
MaxBlocks == 3

\* NaiveTime + Duration wraps around midnight: seconds of one day
SecsPerDay == 86400

(***************************************************************************)
(* Rational32 (num_rational), as far as Food uses it.                      *)
(***************************************************************************)
Abs(n) == IF n < 0 THEN -n ELSE n

RECURSIVE Gcd(_, _)
Gcd(a, b) == IF b = 0 THEN a ELSE Gcd(b, a % b)

\* Rational32::new: reduce to lowest terms, denominator positive
RationalNew(n, d) ==
    LET g == Gcd(Abs(n), Abs(d))
        s == IF d < 0 THEN -1 ELSE 1
    IN  [numerator |-> s * (n \div g), denominator |-> s * (d \div g)]

\* Rational32::from_integer
RationalFromInteger(n) == [numerator |-> n, denominator |-> 1]

\* Ratio * Ratio
RationalMul(a, b) ==
    RationalNew(a.numerator * b.numerator, a.denominator * b.denominator)

\* Ratio::to_integer: numerator / denominator with Rust's integer division,
\* which truncates toward zero
RationalToInteger(a) ==
    IF a.numerator < 0
    THEN -((-a.numerator) \div a.denominator)
    ELSE a.numerator \div a.denominator

\* Fraction::from_rational
from_rational(ratio) ==
    [numerator |-> ratio.numerator, denominator |-> ratio.denominator]

\* Fraction::to_rational
to_rational(fraction) == RationalNew(fraction.numerator, fraction.denominator)

(***************************************************************************)
(* Food                                                                    *)
(***************************************************************************)
\* Recipe::new: only the name and the time matter to the engine
RecipeNew(name, time) ==
    [kind |-> "Recipe", name |-> name, time |-> from_rational(time)]

\* RawFood::new
RawFoodNew(name) == [kind |-> "RawFood", name |-> name]

\* Food::get_time
get_time(f) ==
    IF f.kind = "RawFood" THEN RationalFromInteger(0) ELSE to_rational(f.time)

\* Food::get_duration, in seconds
get_duration(f) ==
    LET time_fraction == RationalMul(get_time(f), RationalFromInteger(60))
    IN  RationalToInteger(time_fraction)

\* The foods the scheduling model draws from: a raw ingredient, a recipe of
\* 30.5 s, a recipe with a negative time, and one that takes 30 s less than
\* a whole day
Pantry ==
    { RawFoodNew("salt"),
      RecipeNew("toast", RationalNew(61, 120)),
      RecipeNew("undo", RationalNew(-61, 120)),
      RecipeNew("feast", RationalNew(2879, 2)) }

(***************************************************************************)
(* Block                                                                   *)
(***************************************************************************)
\* NaiveTime + Duration
TimeAdd(t, d) == (t + d) % SecsPerDay

\* Block::new
Block_new(start, end, f) == [start |-> start, end |-> end, food |-> f]

\* Block::has_food
has_food(self) == self.food # <<>>

\* Block::add_food
add_food(self, f) == [self EXCEPT !.food = <<f>>]

\* food_end without the time of the food the block already holds
food_end_ignoring_existing(self, f) == TimeAdd(self.start, get_duration(f))

\* the end time that making this food would result in
food_end(self, f) ==
    IF has_food(self)
    THEN TimeAdd(TimeAdd(self.start, get_duration(self.food[1])), get_duration(f))
    ELSE TimeAdd(self.start, get_duration(f))

\* the split point
middle(self, f) == TimeAdd(self.start, get_duration(f))

\* does_not_fit that also rejects the food that ends with the block
does_not_fit_strict(fe, end) == fe >= end

\* "food does not fit"
does_not_fit(fe, end) == fe > end

\* is_replace as the doc comment words it: only a block without a food
is_replace_no_existing(mid, self) == mid = self.end /\ ~has_food(self)

\* is_replace without the test of the existing food
is_replace_any(mid, self) == mid = self.end

\* the available time is exactly consumed and the outcome is one block
is_replace(mid, self) == mid = self.end /\ has_food(self)

\* the block that takes the new food
first_block(self, f) == Block_new(self.start, middle(self, f), <<f>>)

\* second_block that loses the existing food
second_block_empty(self, f) == Block_new(middle(self, f), self.end, <<>>)

\* the block that keeps what the split block held
second_block(self, f) == Block_new(middle(self, f), self.end, self.food)

Failure(t) == [tag |-> "Failure", blocks |-> <<>>, time |-> <<t>>]
Replace(b) == [tag |-> "Replace", blocks |-> <<b>>, time |-> <<>>]
Split(a, b) == [tag |-> "Split", blocks |-> <<a, b>>, time |-> <<>>]

\* Block::split_at_start
split_at_start(self, f) ==
    IF does_not_fit(food_end(self, f), self.end)
    THEN Failure(food_end(self, f))
    ELSE IF is_replace(middle(self, f), self)
         THEN Replace(Block_new(self.start, middle(self, f), <<f>>))
         ELSE Split(first_block(self, f), second_block(self, f))

(***************************************************************************)
(* The program: a caller that owns blocks and one food, and calls the      *)
(* engine.  call names the operation that returned last and the block it   *)
(* was called on, out is the SplitBlock it returned when it was            *)
(* split_at_start.                                                         *)
(***************************************************************************)
\* 09:00:00, 09:00:30 and 09:01:00
Times == {32400, 32430, 32460}

NoCall == [op |-> "new", self |-> 0]
NoOutcome == [tag |-> "None", blocks |-> <<>>, time |-> <<>>]

Init ==
    /\ \E s \in Times, e \in Times, f \in {<<>>} \cup {<<p>> : p \in Pantry} :
          /\ s <= e
          /\ blocks = <<Block_new(s, e, f)>>
    /\ food \in Pantry
    /\ out = NoOutcome
    /\ call = NoCall

\* the caller makes another food
NewFood(f) ==
    /\ food' = f
    /\ call' = NoCall
    /\ out' = NoOutcome
    /\ UNCHANGED blocks

\* a split_at_start that shortens the block it is called on in place
SplitAtStartInPlace(i) ==
    LET r == split_at_start(blocks[i], food)
    IN  /\ Len(blocks) + Len(r.blocks) <= MaxBlocks
        /\ out' = r
        /\ blocks' = IF r.blocks = <<>>
                      THEN blocks
                      ELSE [blocks EXCEPT ![i] = r.blocks[1]] \o r.blocks
        /\ call' = [op |-> "split_at_start", self |-> i]
        /\ UNCHANGED food

\* blocks[i].split_at_start(&food); the caller keeps the returned blocks
SplitAtStart(i) ==
    LET r == split_at_start(blocks[i], food)
    IN  /\ Len(blocks) + Len(r.blocks) <= MaxBlocks
        /\ out' = r
        /\ blocks' = blocks \o r.blocks
        /\ call' = [op |-> "split_at_start", self |-> i]
        /\ UNCHANGED food

\* blocks[i].add_food(food.clone())
AddFood(i) ==
    /\ blocks' = [blocks EXCEPT ![i] = add_food(blocks[i], food)]
    /\ call' = [op |-> "add_food", self |-> i]
    /\ out' = NoOutcome
    /\ UNCHANGED food

Next ==
    \/ \E f \in Pantry : NewFood(f)
    \/ \E i \in DOMAIN blocks : SplitAtStart(i)
    \/ \E i \in DOMAIN blocks : AddFood(i)

Spec == Init /\ [][Next]_vars

(***************************************************************************)
(* Properties.  AfterSplit holds in the states split_at_start has just     *)
(* returned in: B is the block it was called on, A the food it was given,  *)
(* out its outcome.                                                        *)
(***************************************************************************)
AfterSplit == call.op = "split_at_start"
B == blocks[call.self]
A == food

\* the duration of a block's occupant, 0 when the block is free
OccupantDuration(b) == IF b.food = <<>> THEN 0 ELSE get_duration(b.food[1])

\* B.start + occupant's duration + A's duration, as a time of day
RequiredEnd == TimeAdd(B.start, OccupantDuration(B) + get_duration(A))

\* B.start + A's duration, as a time of day
SplitPoint == TimeAdd(B.start, get_duration(A))

Toast == RecipeNew("toast", RationalNew(61, 120))
Salt == RawFoodNew("salt")

\* C1: when B.start + (duration of B's occupant, 0 if free) + A.duration()
\* is after B.end, split_at_start returns Failure carrying exactly that
\* time, and no block.
C1_NoFit ==
    (AfterSplit /\ RequiredEnd > B.end) =>
        /\ out.tag = "Failure"
        /\ out.time = <<RequiredEnd>>
        /\ out.blocks = <<>>

\* [09:00:00, 09:00:30) holding toast (30 s), given toast: Failure(09:01:00)
C1_Witness ==
    /\ AfterSplit
    /\ B = Block_new(32400, 32430, <<Toast>>)
    /\ A = Toast
    /\ out.tag = "Failure"
    /\ out.time = <<32460>>

\* C2: the time in Failure(t) is the least end that fits: the same start,
\* occupant and food with end t is split or replaced, and with any end from
\* start up to t - 1 it fails again.
C2_MinimumEnd ==
    (AfterSplit /\ out.tag = "Failure") =>
        LET t == out.time[1]
        IN  /\ split_at_start(Block_new(B.start, t, B.food), A).tag
                 \in {"Split", "Replace"}
            /\ \A e \in B.start .. (t - 1) :
                 split_at_start(Block_new(B.start, e, B.food), A).tag = "Failure"

\* a failure on a block of positive length, whose reported end is later
\* than the block's and, given to the block, makes the food split it
C2_Witness ==
    /\ AfterSplit
    /\ out.tag = "Failure"
    /\ B.start < B.end
    /\ B.end < out.time[1]
    /\ split_at_start(Block_new(B.start, out.time[1], B.food), A).tag = "Split"

\* C3: the two blocks of a Split share the split point B.start + A.duration(),
\* start at B.start and end at B.end, and so are contiguous, disjoint and
\* cover exactly [B.start, B.end): the split point lies within the block.
C3_SplitEndpoints ==
    (AfterSplit /\ out.tag = "Split") =>
        LET first == out.blocks[1]
            second == out.blocks[2]
        IN  /\ first.start = B.start
            /\ first.end = second.start
            /\ first.end = SplitPoint
            /\ second.end = B.end
            /\ B.start <= first.end
            /\ second.start <= B.end

\* C4: in a Split the first block holds the new food and the second holds
\* what B held: B's occupant by value, or nothing when B was free.
C4_OccupantPreservation ==
    (AfterSplit /\ out.tag = "Split") =>
        /\ out.blocks[1].food = <<A>>
        /\ out.blocks[2].food = B.food

C4_Witness ==
    /\ AfterSplit
    /\ out.tag = "Split"
    /\ B.food # <<>>
    /\ B.food # <<A>>
    /\ out.blocks[2].food = B.food

C7_ReplaceAsDocumented ==
    AfterSplit =>
        (out.tag = "Replace" <=> (~has_food(B) /\ SplitPoint = B.end))

\* C8: split_at_start changes neither the block it is called on, nor any
\* other block, nor the caller's food; add_food changes the one block it is
\* called on and nothing else, whether that block was returned by a split or
\* was split itself.
C8_Purity ==
    [][ /\ call'.op = "split_at_start" =>
              /\ food' = food
              /\ Len(blocks') >= Len(blocks)
              /\ \A j \in DOMAIN blocks : blocks'[j] = blocks[j]
        /\ call'.op = "add_food" =>
              /\ food' = food
              /\ DOMAIN blocks' = DOMAIN blocks
              /\ \A j \in DOMAIN blocks \ {call'.self} : blocks'[j] = blocks[j]
      ]_vars

\* add_food on the first block a Split returned, the split block still free
C8_Witness ==
    /\ call = [op |-> "add_food", self |-> 2]
    /\ Len(blocks) = 3
    /\ blocks[1].food = <<>>
    /\ blocks[1].start = blocks[2].start
    /\ blocks[2].food = <<Salt>>
    /\ blocks[3].food = <<>>

\* C9: every block that exists has start <= end.
C9_WellFormed == \A j \in DOMAIN blocks : blocks[j].start <= blocks[j].end

\* the stored minutes of a food, as numerator and denominator
Minutes(f) ==
    IF f.kind = "RawFood" THEN [numerator |-> 0, denominator |-> 1] ELSE f.time

\* C10: a food's duration is floor(minutes * 60) seconds and never negative;
\* a RawFood's is 0.
C10_Duration ==
    /\ get_duration(food) = (Minutes(food).numerator * 60) \div Minutes(food).denominator
    /\ get_duration(food) >= 0
    /\ food.kind = "RawFood" => get_duration(food) = 0

\* C11: in a Split of an occupied block the second block is at least as long
\* as the occupant's duration and the first block is exactly as long as the
\* new food's duration; an occupant is dropped by Replace only when its
\* duration is zero.
C11_DisplacedOccupantFits ==
    /\ (AfterSplit /\ out.tag = "Split" /\ has_food(B)) =>
          /\ out.blocks[2].end - out.blocks[2].start >= OccupantDuration(B)
          /\ out.blocks[1].end - out.blocks[1].start = get_duration(A)
    /\ (AfterSplit /\ out.tag = "Replace") => OccupantDuration(B) = 0

====
